---- MODULE Spec2Model ----
(***************************************************************************)
(* tiiramuunnin.py: the driver (__main__), read_csv, convert_geographical  *)
(* and write_csv as a state machine.                                       *)
(*                                                                         *)
(* Text is a sequence of Unicode code points, a file is a sequence of      *)
(* lines of bytes.  A table (pandas DataFrame) is a record                 *)
(*   [cols |-> sequence of column names, rows |-> sequence of rows]        *)
(* where a row maps each column name to a cell [t |-> type, v |-> value].  *)
(***************************************************************************)
EXTENDS Integers, Sequences, FiniteSets, TLC

(* ------------------------------------------------------------------ *)
(* Bounds of the model                                                 *)
(* ------------------------------------------------------------------ *)
MaxRows == 2
MaxTypes == 2
MaxRuns == 2

(* ------------------------------------------------------------------ *)
(* Text constants of the program (code points)                         *)
(* ------------------------------------------------------------------ *)
\* "Laji"
cLaji == <<76, 97, 106, 105>>
\* "Pvm1"
cPvm1 == <<80, 118, 109, 49>>
\* "Pvm2"
cPvm2 == <<80, 118, 109, 50>>
\* "Kunta"
cKunta == <<75, 117, 110, 116, 97>>
\* "Paikka"
cPaikka == <<80, 97, 105, 107, 107, 97>>
\* "X-koord"
cXkoord == <<88, 45, 107, 111, 111, 114, 100>>
\* "Y-koord"
cYkoord == <<89, 45, 107, 111, 111, 114, 100>>
\* "rivityyppi"
cRivityyppi == <<114, 105, 118, 105, 116, 121, 121, 112, 112, 105>>
\* "rivejä" (U+00E4 = 228)
cRiveja == <<114, 105, 118, 101, 106, 228>>
\* "Määrä"
cMaara == <<77, 228, 228, 114, 228>>
\* "Tallennusaika"
cTallennusaika == <<84, 97, 108, 108, 101, 110, 110, 117, 115, 97, 105, 107, 97>>

\* "maantieteelliset_koordinaatit", the one key of the registry
tGeo ==
  <<109, 97, 97, 110, 116, 105, 101, 116, 101, 101, 108, 108, 105, 115, 101, 116,
    95, 107, 111, 111, 114, 100, 105, 110, 97, 97, 116, 105, 116>>

(* ------------------------------------------------------------------ *)
(* Text helpers (Python str operations)                                *)
(* ------------------------------------------------------------------ *)
\* concatenation of ss[lo..hi], by halves
RECURSIVE FlattenRange(_, _, _)
FlattenRange(ss, lo, hi) ==
  IF lo > hi THEN <<>>
  ELSE IF lo = hi THEN ss[lo]
  ELSE LET mid == (lo + hi) \div 2
       IN  FlattenRange(ss, lo, mid) \o FlattenRange(ss, mid + 1, hi)

\* "".join(ss)
Flatten(ss) == FlattenRange(ss, 1, Len(ss))

\* the positions of s, in order
Indices(s) == [k \in 1..Len(s) |-> k]

\* sep.join(parts)
RECURSIVE Join(_, _)
Join(parts, sep) ==
  IF parts = <<>> THEN <<>>
  ELSE IF Len(parts) = 1 THEN parts[1]
  ELSE parts[1] \o sep \o Join(Tail(parts), sep)

\* s.split(c) for a one-character separator c
RECURSIVE StrSplit(_, _)
StrSplit(s, c) ==
  IF \A k \in 1..Len(s) : s[k] # c THEN <<s>>
  ELSE LET k == CHOOSE k \in 1..Len(s) : s[k] = c /\ \A j \in 1..(k - 1) : s[j] # c
       IN  <<SubSeq(s, 1, k - 1)>> \o StrSplit(SubSeq(s, k + 1, Len(s)), c)

\* list.insert(at, x) for 0-based position at (positions past the end append)
ListInsert(l, at, x) ==
  LET p == IF at > Len(l) THEN Len(l) ELSE at
  IN  SubSeq(l, 1, p) \o <<x>> \o SubSeq(l, p + 1, Len(l))

IsDigits(s) == s # <<>> /\ \A k \in 1..Len(s) : s[k] \in 48..57

RECURSIVE NumVal(_)
NumVal(s) == IF s = <<>> THEN 0 ELSE 10 * NumVal(SubSeq(s, 1, Len(s) - 1)) + (s[Len(s)] - 48)

RECURSIVE DigitsOf(_)
DigitsOf(n) == IF n < 10 THEN <<48 + n>> ELSE DigitsOf(n \div 10) \o <<48 + (n % 10)>>

\* n written with at least w digits (zero padded)
RECURSIVE Padded(_, _)
Padded(n, w) == LET d == DigitsOf(n) IN IF Len(d) >= w THEN d ELSE <<48>> \o Padded(n, w - 1)

(* ------------------------------------------------------------------ *)
(* Codecs: utf-8 and iso-8859-15                                       *)
(* ------------------------------------------------------------------ *)
Utf8EncodeChar(cp) ==
  IF cp < 128 THEN <<cp>>
  ELSE IF cp < 2048 THEN <<192 + (cp \div 64), 128 + (cp % 64)>>
  ELSE <<224 + (cp \div 4096), 128 + ((cp \div 64) % 64), 128 + (cp % 64)>>

IsCont(b) == b \in 128..191
\* length of the sequence a lead byte opens, 0 for a byte that opens none
Utf8Size(b) ==
  IF b < 128 THEN 1 ELSE IF b \in 194..223 THEN 2 ELSE IF b \in 224..239 THEN 3 ELSE 0

\* [ok |-> decoding succeeded, text |-> the code points]
\* (sequences of up to three bytes: the Basic Multilingual Plane)
Utf8Decode(bs) ==
  LET n == Len(bs)
      wellFormed(k) ==
        IF IsCont(bs[k])
        THEN \/ k > 1 /\ Utf8Size(bs[k - 1]) \in {2, 3}
             \/ k > 2 /\ Utf8Size(bs[k - 2]) = 3 /\ IsCont(bs[k - 1])
        ELSE /\ Utf8Size(bs[k]) > 0
             /\ k + Utf8Size(bs[k]) - 1 <= n
             /\ \A j \in (k + 1)..(k + Utf8Size(bs[k]) - 1) : IsCont(bs[j])
      cp(k) ==
        IF Utf8Size(bs[k]) = 1 THEN bs[k]
        ELSE IF Utf8Size(bs[k]) = 2 THEN (bs[k] - 192) * 64 + (bs[k + 1] - 128)
        ELSE (bs[k] - 224) * 4096 + (bs[k + 1] - 128) * 64 + (bs[k + 2] - 128)
      leads == SelectSeq(Indices(bs), LAMBDA k : ~IsCont(bs[k]))
  IN  IF /\ \A k \in 1..n : wellFormed(k)
         /\ \A m \in 1..Len(leads) : Utf8Size(bs[leads[m]]) = 3 => cp(leads[m]) >= 2048
      THEN [ok |-> TRUE, text |-> [m \in 1..Len(leads) |-> cp(leads[m])]]
      ELSE [ok |-> FALSE, text |-> <<>>]

\* the eight positions where iso-8859-15 differs from iso-8859-1
Latin9Special ==
  {<<164, 8364>>, <<166, 352>>, <<168, 353>>, <<180, 381>>,
   <<184, 382>>, <<188, 338>>, <<189, 339>>, <<190, 376>>}

Latin9DecodeByte(b) ==
  IF \E p \in Latin9Special : p[1] = b
  THEN (CHOOSE p \in Latin9Special : p[1] = b)[2]
  ELSE b

Latin9Encodable(cp) ==
  \/ \E p \in Latin9Special : p[2] = cp
  \/ cp < 256 /\ ~(\E p \in Latin9Special : p[1] = cp)

Latin9EncodeChar(cp) ==
  IF \E p \in Latin9Special : p[2] = cp
  THEN (CHOOSE p \in Latin9Special : p[2] = cp)[1]
  ELSE cp

\* bytes.decode(encoding): every byte string decodes under iso-8859-15
Decode(bs, enc) ==
  IF enc = "utf-8" THEN Utf8Decode(bs)
  ELSE [ok |-> TRUE, text |-> [k \in 1..Len(bs) |-> Latin9DecodeByte(bs[k])]]

\* str.encode(encoding)
Encode(s, enc) ==
  IF enc = "utf-8"
  THEN [ok |-> TRUE, bytes |-> Flatten([k \in 1..Len(s) |-> Utf8EncodeChar(s[k])])]
  ELSE IF \A k \in 1..Len(s) : Latin9Encodable(s[k])
       THEN [ok |-> TRUE, bytes |-> [k \in 1..Len(s) |-> Latin9EncodeChar(s[k])]]
       ELSE [ok |-> FALSE, bytes |-> <<>>]

(* ------------------------------------------------------------------ *)
(* Cells and tables                                                    *)
(* ------------------------------------------------------------------ *)
\* NaN / None / NaT
Null == [t |-> "null", v |-> <<>>]
Str(s) == [t |-> "str", v |-> s]
Num(n) == [t |-> "num", v |-> <<n>>]
Date(y, m, d) == [t |-> "date", v |-> <<y, m, d>>]
\* the first and the second value transformer.transform(x, y) returns for
\* epsg:3067 -> epsg:4326 (latitude, longitude); the geodesy is not computed
Lat(x, y) == [t |-> "lat", v |-> <<x, y>>]
Lon(x, y) == [t |-> "lon", v |-> <<x, y>>]

EmptyTable == [cols |-> <<>>, rows |-> <<>>]
ColSet(df) == {df.cols[k] : k \in 1..Len(df.cols)}
HasCols(df, names) == \A k \in 1..Len(names) : names[k] \in ColSet(df)

(* ------------------------------------------------------------------ *)
(* CSV reading (pandas.read_csv as read_csv calls it)                  *)
(* ------------------------------------------------------------------ *)
\* the fields of a line that holds no quote character
PlainFields(s, sep) ==
  LET at == SelectSeq(Indices(s), LAMBDA k : s[k] = sep)
      from(m) == IF m = 1 THEN 1 ELSE at[m - 1] + 1
      to(m) == IF m > Len(at) THEN Len(s) ELSE at[m] - 1
  IN  [m \in 1..(Len(at) + 1) |-> SubSeq(s, from(m), to(m))]

\* the fields of a line, field by field: a quote at the start of a field
\* opens a quoted part that runs to its closing quote ("" inside it is one
\* quote); what follows up to the separator is taken as it stands
RECURSIVE QuotedFields(_, _)
QuotedFields(s, sep) ==
  LET n == Len(s)
      quotesIn(a, b) == Cardinality({j \in a..b : s[j] = 34})
      closing == SelectSeq(Indices(s), LAMBDA k : /\ k >= 2 /\ s[k] = 34
                                         /\ quotesIn(2, k) % 2 = 1
                                         /\ (k = n \/ s[k + 1] # 34))
      quoted == n >= 1 /\ s[1] = 34
      close == IF quoted /\ closing # <<>> THEN closing[1] ELSE n + 1
      inner == IF quoted
               THEN LET keep == SelectSeq(Indices(s), LAMBDA k : /\ k \in 2..(close - 1)
                                                        /\ (s[k] = 34 => quotesIn(2, k) % 2 = 0))
                    IN  [m \in 1..Len(keep) |-> s[keep[m]]]
               ELSE <<>>
      start == IF quoted THEN close + 1 ELSE 1
      seps == SelectSeq(Indices(s), LAMBDA k : k >= start /\ s[k] = sep)
      stop == IF seps = <<>> THEN n + 1 ELSE seps[1]
      field == inner \o SubSeq(s, start, stop - 1)
  IN  IF stop > n THEN <<field>>
      ELSE <<field>> \o QuotedFields(SubSeq(s, stop + 1, n), sep)

CsvFields(line, sep) ==
  IF \A k \in 1..Len(line) : line[k] # 34 THEN PlainFields(line, sep)
  ELSE QuotedFields(line, sep)

IsLeap(y) == (y % 4 = 0 /\ y % 100 # 0) \/ y % 400 = 0
DaysIn(m, y) ==
  IF m = 2 THEN (IF IsLeap(y) THEN 29 ELSE 28)
  ELSE IF m \in {4, 6, 9, 11} THEN 30 ELSE 31

\* pd.to_datetime(date, format="%d.%m.%Y", errors="coerce")
to_datetime(date) ==
  LET p == StrSplit(date, 46)
  IN  IF /\ Len(p) = 3
         /\ IsDigits(p[1]) /\ Len(p[1]) <= 2
         /\ IsDigits(p[2]) /\ Len(p[2]) <= 2
         /\ IsDigits(p[3]) /\ Len(p[3]) = 4
         /\ NumVal(p[2]) \in 1..12
         /\ NumVal(p[1]) \in 1..DaysIn(NumVal(p[2]), NumVal(p[3]))
      THEN Date(NumVal(p[3]), NumVal(p[2]), NumVal(p[1]))
      ELSE Null

\* "convert Finnish date format dd.mm.yyyy to ISO-8601"
finnish_date_converter(date) == IF date # <<>> THEN to_datetime(date) ELSE Null

\* parse_dates of read_csv
parse_dates_none == <<>>
parse_dates == <<cTallennusaika>>
\* keys of converters of read_csv
converters == {cPvm1, cPvm2}
\* the encodings read_csv tries, in order
EncodingsSwapped == <<"iso-8859-15", "utf-8">>
Encodings == <<"utf-8", "iso-8859-15">>
\* sep of read_csv ("#")
ReadSep == 35

\* raw text of column j in a line's fields (short lines are padded with NaN)
RawField(fields, j) == IF j <= Len(fields) THEN fields[j] ELSE <<>>

\* one column of parsed cells from its raw texts: a converter column goes
\* through the converter, a column whose non-empty fields are all integers
\* becomes numeric, any other column keeps its text; empty fields are NaN.
\* (a parse_dates column keeps its text: the datetime value is not computed)
ParseColumn(name, raws) ==
  LET numeric == \A k \in 1..Len(raws) : raws[k] = <<>> \/ IsDigits(raws[k])
  IN  [k \in 1..Len(raws) |->
         IF name \in converters THEN finnish_date_converter(raws[k])
         ELSE IF raws[k] = <<>> THEN Null
         ELSE IF numeric /\ ~(\E j \in 1..Len(parse_dates) : parse_dates[j] = name)
              THEN Num(NumVal(raws[k]))
         ELSE Str(raws[k])]

\* the lines of a file decoded: [ok, text]
DecodedLines(d) ==
  [ok |-> \A k \in 1..Len(d) : d[k].ok, text |-> [k \in 1..Len(d) |-> d[k].text]]
DecodeLines(lines, enc) == DecodedLines([k \in 1..Len(lines) |-> Decode(lines[k], enc)])

\* the table of a header and the fields of the data lines
ParsedTable(header, fields) ==
  LET n == Len(fields)
      names == {header[j] : j \in 1..Len(header)}
      pos(c) == CHOOSE j \in 1..Len(header) : header[j] = c
      columns == [c \in names |-> ParseColumn(c, [r \in 1..n |-> RawField(fields[r], pos(c))])]
  IN  IF \E j \in 1..Len(parse_dates) : parse_dates[j] \notin names
      THEN [exc |-> "ValueError", df |-> EmptyTable]
      ELSE [exc |-> "none",
            df |-> [cols |-> header,
                    rows |-> [r \in 1..n |-> [c \in names |-> columns[c][r]]]]]

ParsedText(dec) ==
  IF ~dec.ok THEN [exc |-> "UnicodeDecodeError", df |-> EmptyTable]
  ELSE IF dec.text = <<>> THEN [exc |-> "ValueError", df |-> EmptyTable]
  ELSE ParsedTable(CsvFields(Head(dec.text), ReadSep),
                   [r \in 1..(Len(dec.text) - 1) |-> CsvFields(dec.text[r + 1], ReadSep)])

\* pd.read_csv(csv_file, sep="#", parse_dates=..., converters=..., encoding=...)
\* file: [exists |-> BOOLEAN, lines |-> the lines of bytes]
\* result: [exc |-> "none" or the exception raised, df |-> the table]
pd_read_csv(file, enc) ==
  IF ~file.exists THEN [exc |-> "IOError", df |-> EmptyTable]
  ELSE ParsedText(DecodeLines(file.lines, enc))

\* df[col] = df[col].fillna(value)
fillna_none(df, col, value) == df
fillna(df, col, value) ==
  [df EXCEPT !.rows = [r \in 1..Len(df.rows) |->
     [df.rows[r] EXCEPT ![col] = IF @ = Null THEN value ELSE @]]]

\* The for loop of read_csv from position k of Encodings on:
\* [exc, df, encoding, tried]
RECURSIVE TryEncodings(_, _, _)
RECURSIVE Attempt(_, _, _, _)
\* the try block of one iteration, r being what pd.read_csv did
Attempt(file, k, tried, r) ==
  IF r.exc = "UnicodeDecodeError" THEN TryEncodings(file, k + 1, tried)
  ELSE [exc |-> r.exc, df |-> r.df, encoding |-> Encodings[k], tried |-> tried]

TryEncodings(file, k, tried) ==
  IF k > Len(Encodings)
  THEN \* the loop ran out: df was never bound
       [exc |-> "UnboundLocalError", df |-> EmptyTable,
        encoding |-> IF tried = <<>> THEN "" ELSE tried[Len(tried)], tried |-> tried]
  ELSE Attempt(file, k, Append(tried, Encodings[k]), pd_read_csv(file, Encodings[k]))

\* lines 53-55, a being what the loop left: [exc, parsed, df, encoding, tried];
\* parsed is the table before the fillna of line 54
Filled(a) ==
  IF a.exc # "none"
  THEN [exc |-> a.exc, parsed |-> EmptyTable, df |-> EmptyTable,
        encoding |-> a.encoding, tried |-> a.tried]
  ELSE IF cMaara \notin ColSet(a.df)
  THEN [exc |-> "KeyError", parsed |-> a.df, df |-> EmptyTable,
        encoding |-> a.encoding, tried |-> a.tried]
  ELSE [exc |-> "none", parsed |-> a.df, df |-> fillna(a.df, cMaara, Num(0)),
        encoding |-> a.encoding, tried |-> a.tried]

\* read_csv(csv_file)
read_csv(file) == Filled(TryEncodings(file, 1, <<>>))

(* ------------------------------------------------------------------ *)
(* convert_geographical                                                *)
(* ------------------------------------------------------------------ *)
\* Tables live in frames, a heap of DataFrame objects addressed by position;
\* a variable of the program holds a reference into it.

selected_fields ==
  <<cLaji, cPvm1, cKunta, cPaikka, cXkoord, cYkoord, cRivityyppi, cRiveja>>

\* ", "
CommaSpace == <<44, 32>>

\* df[fields] with a list of labels: a new frame holding the chosen columns
SelectInPlace(frames, ref, fields) ==
  [frames |-> [frames EXCEPT ![ref] =
                 [cols |-> fields,
                  rows |-> [r \in 1..Len(frames[ref].rows) |->
                              [c \in {fields[k] : k \in 1..Len(fields)} |->
                                 frames[ref].rows[r][c]]]]],
   ref |-> ref]

Select(frames, ref, fields) ==
  [frames |-> Append(frames,
                 [cols |-> fields,
                  rows |-> [r \in 1..Len(frames[ref].rows) |->
                              [c \in {fields[k] : k \in 1..Len(fields)} |->
                                 frames[ref].rows[r][c]]]]),
   ref |-> Len(frames) + 1]

\* df.drop([col], axis=1): a new frame without the column
Drop(frames, ref, col) ==
  LET old == frames[ref]
      keep == SelectSeq(old.cols, LAMBDA c : c # col)
  IN  [frames |-> Append(frames,
                    [cols |-> keep,
                     rows |-> [r \in 1..Len(old.rows) |->
                                 [c \in {keep[k] : k \in 1..Len(keep)} |-> old.rows[r][c]]]]),
       ref |-> Len(frames) + 1]

\* df[col] = values: the column of the frame itself is replaced
SetColumn(frames, ref, col, values) ==
  [frames EXCEPT ![ref].rows =
     [r \in 1..Len(frames[ref].rows) |-> [frames[ref].rows[r] EXCEPT ![col] = values[r]]]]

\* lambda x: ", ".join(x) on the (Kunta, Paikka) pair of one row
\* str.join raises TypeError on an item that is no str (NaN, a number)
JoinableRow(row) == row[cKunta].t = "str" /\ row[cPaikka].t = "str"
JoinPlace(row) == Str(Join(<<row[cKunta].v, row[cPaikka].v>>, CommaSpace))

\* what pyproj makes of one coordinate: a number, a numeric str (float(x)), or
\* NaN go through, any other text raises TypeError
CoordOk(cell) == cell.t \in {"num", "null"} \/ (cell.t = "str" /\ IsDigits(cell.v))
CoordVal(cell) == IF cell.t = "str" THEN <<NumVal(cell.v)>> ELSE cell.v

\* transformer.transform(x[0], x[1]): (latitude, longitude)
transform(x0, x1) ==
  LET a == CoordVal(x0)
      b == CoordVal(x1)
  IN  IF a = <<>> \/ b = <<>>
      THEN <<[t |-> "lat", v |-> <<>>], [t |-> "lon", v |-> <<>>]>>
      ELSE <<Lat(a[1], b[1]), Lon(a[1], b[1])>>

\* df[["Y-koord", "X-koord"]] = list(pairs): the first component of each pair
\* goes to Y-koord, the second to X-koord
AssignCoordsSwapped(frames, ref, pairs) ==
  SetColumn(SetColumn(frames, ref, cXkoord, [r \in 1..Len(pairs) |-> pairs[r][1]]),
            ref, cYkoord, [r \in 1..Len(pairs) |-> pairs[r][2]])

AssignCoords(frames, ref, pairs) ==
  SetColumn(SetColumn(frames, ref, cYkoord, [r \in 1..Len(pairs) |-> pairs[r][1]]),
            ref, cXkoord, [r \in 1..Len(pairs) |-> pairs[r][2]])

\* convert_geographical(df): [exc, frames, ref]; ref is the returned table
convert_geographical(frames, df) ==
  IF ~HasCols(frames[df], selected_fields)
  THEN [exc |-> "KeyError", frames |-> frames, ref |-> 0]
  ELSE
  LET s1 == Select(frames, df, selected_fields)
      t1 == s1.frames[s1.ref]
      n == Len(t1.rows)
  IN  IF \E r \in 1..n : ~JoinableRow(t1.rows[r])
      THEN [exc |-> "TypeError", frames |-> s1.frames, ref |-> 0]
      ELSE
      LET f2 == SetColumn(s1.frames, s1.ref, cPaikka, [r \in 1..n |-> JoinPlace(t1.rows[r])])
          s3 == Drop(f2, s1.ref, cKunta)
          t3 == s3.frames[s3.ref]
      IN  IF \E r \in 1..n : ~CoordOk(t3.rows[r][cXkoord]) \/ ~CoordOk(t3.rows[r][cYkoord])
          THEN [exc |-> "TypeError", frames |-> s3.frames, ref |-> 0]
          ELSE [exc |-> "none",
                frames |-> AssignCoords(s3.frames, s3.ref,
                             [r \in 1..n |-> transform(t3.rows[r][cXkoord], t3.rows[r][cYkoord])]),
                ref |-> s3.ref]

(* ------------------------------------------------------------------ *)
(* write_csv                                                           *)
(* ------------------------------------------------------------------ *)
\* separator of write_csv (",")
separator == 44

\* the text of one cell; a float is written with float_format "%.10f": the
\* digits of a reprojected value are not computed, its text names the value
CellText(cell) ==
  IF cell.t = "str" THEN cell.v
  ELSE IF cell.t = "num" THEN DigitsOf(cell.v[1])
  ELSE IF cell.t = "date"
       THEN Padded(cell.v[1], 4) \o <<45>> \o Padded(cell.v[2], 2) \o <<45>> \o Padded(cell.v[3], 2)
  ELSE IF cell.t \in {"lat", "lon"}
       THEN (IF cell.t = "lat" THEN <<108, 97, 116>> ELSE <<108, 111, 110>>)
            \o <<40>> \o Join([k \in 1..Len(cell.v) |-> DigitsOf(cell.v[k])], <<59>>) \o <<41>>
  ELSE <<>>

\* csv.QUOTE_MINIMAL: a field holding the separator, a quote or a line end is quoted
Quoted(s) ==
  IF \E k \in 1..Len(s) : s[k] \in {separator, 34, 10, 13}
  THEN <<34>> \o Flatten([k \in 1..Len(s) |-> IF s[k] = 34 THEN <<34, 34>> ELSE <<s[k]>>]) \o <<34>>
  ELSE s

\* the lines of text df.to_csv(index=False, sep=separator) writes
CsvText(df) ==
  <<Join([j \in 1..Len(df.cols) |-> Quoted(df.cols[j])], <<separator>>)>>
  \o [r \in 1..Len(df.rows) |->
        Join([j \in 1..Len(df.cols) |-> Quoted(CellText(df.rows[r][df.cols[j]]))],
             <<separator>>)]

\* write_csv(df, filename, encoding): [exc, printed, file]
\* IOError is caught inside and reported; the call then returns normally
write_csv(df, writable, encoding) ==
  LET text == CsvText(df)
      enc == [k \in 1..Len(text) |-> Encode(text[k], encoding)]
  IN  IF ~writable
      THEN [exc |-> "none", failed |-> TRUE, lines |-> <<>>]
      ELSE IF \E k \in 1..Len(text) : ~enc[k].ok
      THEN [exc |-> "UnicodeEncodeError", failed |-> FALSE, lines |-> <<>>]
      ELSE [exc |-> "none", failed |-> FALSE, lines |-> [k \in 1..Len(text) |-> enc[k].bytes]]

(* ------------------------------------------------------------------ *)
(* The driver (__main__)                                               *)
(* ------------------------------------------------------------------ *)
\* the registry: conversion type -> transformer
conversions == [k \in {tGeo} |-> "convert_geographical"]

Registered(conversion) == conversion \in DOMAIN conversions

\* conversions[conversion](df)
CallConversion(conversion, frames, df) == convert_geographical(frames, df)

\* lines 167-169: split the base name at every ".", insert "_<conversion>."
\* at position 1, join with nothing in between
DeriveFilename(outfilename, conversion) ==
  Flatten(ListInsert(StrSplit(outfilename, 46), 1, <<95>> \o conversion \o <<46>>))

\* exit status of the process: sys.exit(1) after an IOError, 1 after an
\* exception nobody catches, 0 when the script runs to its end
ExitStatusZero(exc) == IF exc = "none" THEN 0 ELSE 0
ExitStatus(exc) == IF exc = "none" THEN 0 ELSE 1

Msg(kind, arg) == [kind |-> kind, arg |-> arg]

(* ------------------------------------------------------------------ *)
(* Inputs                                                              *)
(* ------------------------------------------------------------------ *)
\* "tiira.csv" (default_infile)
default_infile == <<116, 105, 105, 114, 97, 46, 99, 115, 118>>
\* "nonexistent": a conversion type the registry does not hold
tUnknown == <<110, 111, 110, 101, 120, 105, 115, 116, 101, 110, 116>>
\* base output names: "result.csv", "my.data.csv", "result"
OutNames ==
  {<<114, 101, 115, 117, 108, 116, 46, 99, 115, 118>>,
   <<109, 121, 46, 100, 97, 116, 97, 46, 99, 115, 118>>,
   <<114, 101, 115, 117, 108, 116>>}

\* header of a tiira.fi export, and one lacking the rivejä column
FullHeader ==
  <<cLaji, cPvm1, cPvm2, cKunta, cPaikka, cXkoord, cYkoord, cRivityyppi, cRiveja,
    cMaara, cTallennusaika>>
ShortHeader == SelectSeq(FullHeader, LAMBDA c : c # cRiveja)
Headers == {FullHeader, ShortHeader}

\* an observation: Laji "A", Pvm1 "01.02.2020", Pvm2 "", Kunta "K", Paikka "P",
\* X-koord "385", Y-koord "667", rivityyppi "h", rivejä "1", Määrä "5",
\* Tallennusaika "x"
BaseRow ==
  (cLaji :> <<65>>) @@ (cPvm1 :> <<48, 49, 46, 48, 50, 46, 50, 48, 50, 48>>)
  @@ (cPvm2 :> <<>>) @@ (cKunta :> <<75>>) @@ (cPaikka :> <<80>>)
  @@ (cXkoord :> <<51, 56, 53>>) @@ (cYkoord :> <<54, 54, 55>>)
  @@ (cRivityyppi :> <<104>>) @@ (cRiveja :> <<49>>) @@ (cMaara :> <<53>>)
  @@ (cTallennusaika :> <<120>>)

\* the observations a file may hold: the plain one; one with a non-ASCII
\* place, no count and no date; one with no place; one with an unparsable
\* date and a coordinate that is no number
RowKinds ==
  {BaseRow,
   [BaseRow EXCEPT ![cPaikka] = <<228, 8364>>, ![cMaara] = <<>>, ![cPvm1] = <<>>,
                   ![cLaji] = <<66>>],
   [BaseRow EXCEPT ![cPaikka] = <<>>, ![cLaji] = <<67>>],
   [BaseRow EXCEPT ![cXkoord] = <<98, 97, 100>>, ![cPvm1] = <<51, 49, 46, 48, 50, 46, 50, 48, 50, 48>>,
                   ![cLaji] = <<68>>]}

\* the file a header and rows of text make under an encoding, "#"-separated
TiiraFile(header, rows, enc) ==
  LET line(f) == Encode(Join([j \in 1..Len(header) |-> f[header[j]]], <<ReadSep>>), enc).bytes
  IN  [lines |-> <<Encode(Join(header, <<ReadSep>>), enc).bytes>>
                 \o [r \in 1..Len(rows) |-> line(rows[r])],
       encoding |-> enc, table |-> EmptyTable]

TypeLists == UNION {[1..m -> {tGeo, tUnknown}] : m \in 0..MaxTypes}
RowLists == UNION {[1..n -> RowKinds] : n \in 0..MaxRows}

(* ------------------------------------------------------------------ *)
(* State                                                               *)
(* ------------------------------------------------------------------ *)
VARIABLES
  argv,             \* [filename, outfilename, types]: the parsed command line
  disk,             \* file name -> [lines, encoding, table]; encoding and table
                    \* record what the Writer was given (nothing for an input)
  writable,         \* whether an output file can be created
  pc,               \* "args", "ingest", "loop", "exited"
  conversion_types, \* args.conversion_types
  frames,           \* the DataFrame objects
  df,               \* the driver's df: a position in frames, 0 while unbound
  encoding,         \* the driver's encoding
  tried,            \* the encodings read_csv has passed to pd.read_csv
  parsed,           \* the table pd.read_csv returned, before line 54
  ingested,         \* the table read_csv returned
  i,                \* position of the for loop in conversion_types
  out,              \* what was printed
  log,              \* one record per iteration of the for loop
  crash,            \* the exception that ended the run, "none" if none
  exitCode,         \* exit status, once pc = "exited"
  run               \* number of the current run of the program

vars ==
  <<argv, disk, writable, pc, conversion_types, frames, df, encoding, tried, parsed,
    ingested, i, out, log, crash, exitCode, run>>

Fresh ==
  /\ pc = "args"
  /\ conversion_types = <<>>
  /\ frames = <<>>
  /\ df = 0
  /\ encoding = ""
  /\ tried = <<>>
  /\ parsed = EmptyTable
  /\ ingested = EmptyTable
  /\ i = 1
  /\ out = <<>>
  /\ log = <<>>
  /\ crash = "none"
  /\ exitCode = 0

Init ==
  /\ Fresh
  /\ run = 1
  /\ writable \in BOOLEAN
  /\ \E types \in TypeLists, o \in OutNames :
       argv = [filename |-> default_infile, outfilename |-> o, types |-> types]
  /\ \/ disk = <<>>
     \/ \E header \in Headers, rows \in RowLists, enc \in {"utf-8", "iso-8859-15"} :
          disk = (default_infile :> TiiraFile(header, rows, enc))

\* open(args.filename)
OpenFile(name) ==
  IF name \in DOMAIN disk THEN [exists |-> TRUE, lines |-> disk[name].lines]
  ELSE [exists |-> FALSE, lines |-> <<>>]

\* lines 151-155: an empty list of types becomes the built-in one
ParseArgs ==
  /\ pc = "args"
  /\ conversion_types' = IF argv.types = <<>> THEN <<tGeo>> ELSE argv.types
  /\ pc' = "ingest"
  /\ UNCHANGED <<argv, disk, writable, frames, df, encoding, tried, parsed, ingested, i,
                 out, log, crash, exitCode, run>>

\* the assignment or the handler of lines 157-163, r being what read_csv did
Ingested(r) ==
  /\ tried' = r.tried
  /\ parsed' = r.parsed
  /\ IF r.exc = "none"
     THEN /\ frames' = <<r.df>>
          /\ df' = 1
          /\ ingested' = r.df
          /\ encoding' = r.encoding
          /\ pc' = "loop"
          /\ UNCHANGED <<out, crash, exitCode>>
     ELSE /\ pc' = "exited"
          /\ crash' = r.exc
          /\ exitCode' = ExitStatus(r.exc)
          /\ out' = IF r.exc = "IOError"
                    THEN Append(out, Msg("open_error", argv.filename))
                    ELSE Append(out, Msg("traceback", <<>>))
          /\ UNCHANGED <<frames, df, ingested, encoding>>

\* lines 157-163: read_csv, with the IOError handler of the driver
Ingest ==
  /\ pc = "ingest"
  /\ Ingested(read_csv(OpenFile(argv.filename)))
  /\ UNCHANGED <<argv, disk, writable, conversion_types, i, log, run>>

Entry(conversion, filename, outcome, returned, result) ==
  [conversion |-> conversion, filename |-> filename, outcome |-> outcome,
   returned |-> returned, result |-> result]

\* line 175: the KeyError handler
InvalidTypeAborts(conversion, filename) ==
  /\ out' = Append(out, Msg("invalid_type", conversion))
  /\ log' = Append(log, Entry(conversion, filename, "invalid", FALSE, EmptyTable))
  /\ pc' = "exited"
  /\ exitCode' = 0
  /\ UNCHANGED <<disk, i, crash>>

InvalidType(conversion, filename) ==
  /\ out' = Append(out, Msg("invalid_type", conversion))
  /\ log' = Append(log, Entry(conversion, filename, "invalid", FALSE, EmptyTable))
  /\ i' = i + 1
  /\ UNCHANGED <<disk, pc, crash, exitCode>>

\* an exception no handler of the driver catches ends the run
Uncaught(conversion, filename, exc, printed, returned, result) ==
  /\ out' = Append(printed, Msg("traceback", <<>>))
  /\ log' = Append(log, Entry(conversion, filename, "crash", returned, result))
  /\ crash' = exc
  /\ exitCode' = ExitStatus(exc)
  /\ pc' = "exited"
  /\ UNCHANGED <<disk, i>>

\* lines 171-173, w being what write_csv did with result
Written(conversion, filename, result, w) ==
  IF w.exc # "none"
  THEN Uncaught(conversion, filename, w.exc, Append(out, Msg("running", conversion)),
                TRUE, result)
  ELSE /\ disk' = IF w.failed THEN disk
                  ELSE [n \in DOMAIN disk \cup {filename} |->
                          IF n = filename
                          THEN [lines |-> w.lines, encoding |-> encoding, table |-> result]
                          ELSE disk[n]]
       /\ out' = out \o <<Msg("running", conversion)>>
                 \o (IF w.failed THEN <<Msg("write_failed", <<>>)>> ELSE <<>>)
                 \o <<Msg("ready", filename)>>
       /\ log' = Append(log, Entry(conversion, filename,
                                   IF w.failed THEN "write_failed" ELSE "written",
                                   TRUE, result))
       /\ i' = i + 1
       /\ UNCHANGED <<pc, crash, exitCode>>

\* the frames a variable still refers to once the iteration is over: the
\* driver's df (result is rebound or dropped, its value is kept in log)
Referenced(fs) == SubSeq(fs, 1, 1)

\* lines 170-175, c being what the transformer did
Transformed(conversion, filename, c) ==
  /\ frames' = Referenced(c.frames)
  /\ IF c.exc = "KeyError"
     THEN \* KeyError of df[selected_fields], caught by the handler of line 174
          InvalidType(conversion, filename)
     ELSE IF c.exc # "none"
     THEN Uncaught(conversion, filename, c.exc, out, FALSE, EmptyTable)
     ELSE Written(conversion, filename, c.frames[c.ref],
                  write_csv(c.frames[c.ref], writable, encoding))

\* lines 165-175: one iteration of the for loop
Iteration(conversion, filename) ==
  IF ~Registered(conversion)
  THEN \* KeyError of conversions[conversion]
       InvalidType(conversion, filename) /\ UNCHANGED frames
  ELSE Transformed(conversion, filename, CallConversion(conversion, frames, df))

Conversion ==
  /\ pc = "loop"
  /\ i <= Len(conversion_types)
  /\ Iteration(conversion_types[i], DeriveFilename(argv.outfilename, conversion_types[i]))
  /\ UNCHANGED <<argv, writable, conversion_types, df, encoding, tried, parsed, ingested, run>>

\* the for loop is exhausted: the script ends
Finish ==
  /\ pc = "loop"
  /\ i > Len(conversion_types)
  /\ pc' = "exited"
  /\ exitCode' = ExitStatus("none")
  /\ UNCHANGED <<argv, disk, writable, conversion_types, frames, df, encoding, tried, parsed,
                 ingested, i, out, log, crash, run>>

\* the program is run again with -f naming a file an earlier run wrote
RunOnOutput ==
  /\ pc = "exited"
  /\ run < MaxRuns
  /\ \E name \in DOMAIN disk \ {default_infile} :
       argv' = [argv EXCEPT !.filename = name]
  /\ run' = run + 1
  /\ pc' = "args"
  /\ conversion_types' = <<>>
  /\ frames' = <<>>
  /\ df' = 0
  /\ encoding' = ""
  /\ tried' = <<>>
  /\ parsed' = EmptyTable
  /\ ingested' = EmptyTable
  /\ i' = 1
  /\ out' = <<>>
  /\ log' = <<>>
  /\ crash' = "none"
  /\ exitCode' = 0
  /\ UNCHANGED <<disk, writable>>

Next == ParseArgs \/ Ingest \/ Conversion \/ Finish \/ RunOnOutput

Spec == Init /\ [][Next]_vars

(* ------------------------------------------------------------------ *)
(* Properties                                                          *)
(* ------------------------------------------------------------------ *)
Returned == df # 0
Printed(m) == \E k \in 1..Len(out) : out[k] = m
Openable == argv.filename \in DOMAIN disk
\* the table holds text in Kunta and Paikka and numbers in the coordinates
WellTyped(t) ==
  \A r \in 1..Len(t.rows) :
    /\ t.rows[r][cKunta].t = "str"
    /\ t.rows[r][cPaikka].t = "str"
    /\ t.rows[r][cXkoord].t \in {"num", "null"}
    /\ t.rows[r][cYkoord].t \in {"num", "null"}
EightColumns(t) ==
  {cLaji, cPvm1, cKunta, cPaikka, cXkoord, cYkoord, cRivityyppi, cRiveja} \subseteq ColSet(t)

\* res is src converted as the contract of convert_geographical says
Converts(src, res) ==
  /\ Len(res.rows) = Len(src.rows)
  /\ res.cols = <<cLaji, cPvm1, cPaikka, cXkoord, cYkoord, cRivityyppi, cRiveja>>
  /\ \A r \in 1..Len(src.rows) :
       /\ DOMAIN res.rows[r] = {cLaji, cPvm1, cPaikka, cXkoord, cYkoord, cRivityyppi, cRiveja}
       /\ \A c \in {cLaji, cPvm1, cRivityyppi, cRiveja} : res.rows[r][c] = src.rows[r][c]
       /\ res.rows[r][cPaikka] = Str(src.rows[r][cKunta].v \o <<44, 32>> \o src.rows[r][cPaikka].v)
       /\ res.rows[r][cYkoord] = transform(src.rows[r][cXkoord], src.rows[r][cYkoord])[1]
       /\ res.rows[r][cXkoord] = transform(src.rows[r][cXkoord], src.rows[r][cYkoord])[2]

\* C1 as claimed: whenever the transformer has been called on an ingested
\* table that holds the eight selected columns, it returned a table with the
\* same rows in the same order, the seven columns, and the values of the
\* contract.
C1_AnyTable ==
  \A k \in 1..Len(log) :
    (Registered(log[k].conversion) /\ EightColumns(ingested))
      => (log[k].returned /\ Converts(ingested, log[k].result))

\* C1, amended: the same, for tables whose Kunta and Paikka cells are all
\* text and whose X-koord and Y-koord cells are all numbers.
C1_TextAndNumbers ==
  \A k \in 1..Len(log) :
    (Registered(log[k].conversion) /\ EightColumns(ingested) /\ WellTyped(ingested))
      => (log[k].returned /\ Converts(ingested, log[k].result))

C1_Witness ==
  /\ Len(log) >= 1 /\ log[1].returned /\ Registered(log[1].conversion)
  /\ EightColumns(ingested) /\ WellTyped(ingested)
  /\ Len(ingested.rows) >= 2 /\ ingested.rows[1] # ingested.rows[2]

\* C2: the table the driver holds stays equal to what read_csv returned
\* through every conversion, and two conversions of the same type on it
\* return equal tables.
C2_InputNotMutated ==
  Returned =>
    /\ frames[df] = ingested
    /\ \A a \in 1..Len(log), b \in 1..Len(log) :
         (log[a].returned /\ log[b].returned /\ log[a].conversion = log[b].conversion)
           => log[a].result = log[b].result

C2_Witness ==
  /\ Returned /\ Len(log) >= 2 /\ log[1].returned /\ log[2].returned
  /\ Len(ingested.rows) >= 1

InputDecodes(enc) == \A k \in 1..Len(disk[argv.filename].lines) :
                       Decode(disk[argv.filename].lines[k], enc).ok

\* C3: read_csv tries utf-8 first and iso-8859-15 only after utf-8 failed to
\* decode the file; the encoding it returns is the first that decodes the
\* file; every file written in the run is the table's text under exactly
\* that encoding.
C3_EncodingResolved ==
  /\ tried # <<>> =>
       /\ tried \in {<<"utf-8">>, <<"utf-8", "iso-8859-15">>}
       /\ Len(tried) = 2 => (Openable /\ ~InputDecodes("utf-8"))
  /\ Returned =>
       /\ encoding = tried[Len(tried)]
       /\ InputDecodes(encoding)
       /\ encoding = "iso-8859-15" => ~InputDecodes("utf-8")
       /\ \A k \in 1..Len(log) :
            log[k].outcome = "written" =>
              /\ disk[log[k].filename].encoding = encoding
              /\ LET text == CsvText(log[k].result)
                 IN  disk[log[k].filename].lines =
                       [j \in 1..Len(text) |-> Encode(text[j], encoding).bytes]

C3_Witness ==
  /\ Returned /\ encoding = "iso-8859-15"
  /\ \E k \in 1..Len(log) : log[k].outcome = "written" /\ Len(log[k].result.rows) >= 1

\* C4: in the table read_csv returns no Määrä is null; a count that was
\* absent is 0 and a count that was present is what pd.read_csv parsed.
C4_CountFilled ==
  Returned =>
    /\ Len(ingested.rows) = Len(parsed.rows)
    /\ \A r \in 1..Len(ingested.rows) :
         /\ ingested.rows[r][cMaara] # Null
         /\ parsed.rows[r][cMaara] = Null => ingested.rows[r][cMaara] = Num(0)
         /\ parsed.rows[r][cMaara] # Null => ingested.rows[r][cMaara] = parsed.rows[r][cMaara]

C4_Witness ==
  /\ Returned
  /\ \E r \in 1..Len(parsed.rows) : parsed.rows[r][cMaara] = Null
  /\ \E r \in 1..Len(parsed.rows) : parsed.rows[r][cMaara] = Num(5)

InputHeader ==
  LET f == disk[argv.filename].lines
      e == IF InputDecodes("utf-8") THEN "utf-8" ELSE "iso-8859-15"
      h == CsvFields(Decode(f[1], e).text, 35)
  IN  {h[j] : j \in 1..Len(h)}

NothingDone == log = <<>> /\ ~(\E k \in 1..Len(out) : out[k].kind \in {"running", "ready"})

\* C6 as claimed: the exit code is 1 exactly when the input file cannot be
\* opened (and then nothing was converted or written), 0 in every other run.
C6_OnlyOpenFailureExits1 ==
  pc = "exited" =>
    /\ exitCode = 1 <=> ~Openable
    /\ ~Openable => NothingDone

\* C6, amended: the exit code is 1 when the input file cannot be opened (and
\* then nothing was converted or written) and also when an exception the
\* driver does not catch ends the run: read_csv on a file without the
\* Tallennusaika or Määrä column, the transformer on a table with a Kunta or
\* Paikka that is no text or a coordinate that is no number.  It is 0 in
\* every other run, invalid conversion types and failed writes included.
C6_ExitCodes ==
  pc = "exited" =>
    /\ exitCode \in {0, 1}
    /\ exitCode = 1 <=>
         \/ ~Openable
         \/ Openable /\ ~({cTallennusaika, cMaara} \subseteq InputHeader)
         \/ /\ Returned /\ EightColumns(ingested) /\ ~WellTyped(ingested)
            /\ \E k \in 1..Len(conversion_types) : conversion_types[k] = tGeo
    /\ ~Openable => (NothingDone /\ Printed(Msg("open_error", argv.filename)))
    /\ exitCode = 0 => Len(log) = Len(conversion_types)

C6_Witness ==
  /\ pc = "exited" /\ exitCode = 1 /\ Openable /\ crash = "TypeError"
  /\ Len(log) >= 2 /\ log[1].outcome = "invalid"

\* C7 as claimed: the success message of a conversion is printed only when
\* its file was written; a failed write prints the failure message and no
\* success message, and the loop goes on.
C7_ReadyOnlyWhenWritten ==
  \A k \in 1..Len(log) :
    log[k].outcome = "write_failed" =>
      /\ Printed(Msg("write_failed", <<>>))
      /\ ~Printed(Msg("ready", log[k].filename))

\* the position of the last "." of a name, 0 if it has none
LastDot(name) ==
  IF \E k \in 1..Len(name) : name[k] = 46
  THEN CHOOSE k \in 1..Len(name) : name[k] = 46 /\ \A j \in (k + 1)..Len(name) : name[j] # 46
  ELSE 0

\* C8 as claimed: the derived name is the base name with "_<type>" inserted
\* right before its extension (its last "." part), nothing else changed.
C8_InsertedBeforeExtension ==
  \A k \in 1..Len(log) :
    LastDot(argv.outfilename) > 0 =>
      log[k].filename =
        SubSeq(argv.outfilename, 1, LastDot(argv.outfilename) - 1)
        \o <<95>> \o log[k].conversion
        \o SubSeq(argv.outfilename, LastDot(argv.outfilename), Len(argv.outfilename))

\* the run reads a file the Writer wrote
ReadsBack == Openable /\ disk[argv.filename].table # EmptyTable
NonCoordinate == {cLaji, cPvm1, cPaikka, cRivityyppi, cRiveja}

\* C9 as claimed: read_csv on a file write_csv wrote succeeds and yields the
\* written table's values in the columns that are no coordinates.
C9_RoundTrip ==
  (ReadsBack /\ pc \in {"loop", "exited"}) =>
    /\ Returned
    /\ Len(ingested.rows) = Len(disk[argv.filename].table.rows)
    /\ \A r \in 1..Len(ingested.rows) : \A c \in NonCoordinate :
         /\ c \in DOMAIN ingested.rows[r]
         /\ ingested.rows[r][c] = disk[argv.filename].table.rows[r][c]

\* C9, amended: read_csv on a file write_csv wrote returns no table: it
\* raises ValueError, the ","-separated file having no "#"-separated column
\* Tallennusaika for parse_dates; the run ends with exit code 1.
C9_ReadBackFails ==
  (ReadsBack /\ pc \in {"loop", "exited"}) =>
    /\ ~Returned
    /\ pc = "exited" /\ crash = "ValueError" /\ exitCode = 1
    /\ log = <<>>

C9_Witness ==
  /\ ReadsBack /\ pc = "exited"
  /\ Len(disk[argv.filename].table.rows) >= 1

\* C10 as claimed: the invalid-type message names only types the registry
\* does not hold.
C10_InvalidOnlyIfUnregistered ==
  \A k \in 1..Len(out) :
    out[k].kind = "invalid_type" => out[k].arg \notin DOMAIN conversions
====
